---- MODULE Spec2Model ----
(***************************************************************************)
(* A model of the singly linked list of integers of src/list.c.            *)
(*                                                                         *)
(* The heap is a finite array of node cells.  malloc returns NULL or any   *)
(* cell that is not live (released cells are reused), free releases a      *)
(* cell.  The functions of list.c are operators over the heap, translated  *)
(* loop by loop; the actions are calls of these functions by a client that *)
(* holds list variables (hd).  The variable last records the call just     *)
(* made, with the heap before it, until the client moves on.               *)
(***************************************************************************)
EXTENDS Integers, Sequences, FiniteSets, TLC

\* Bounds of the model.
MaxNodes == 4
MaxVal == 2
MaxLen == 3

NULL == 0
Addr == 1..MaxNodes
Ptr == Addr \cup {NULL}
Values == 1..MaxVal
Handles == {"lst", "copy"}

VARIABLES
    mem,     \* the heap: cell -> [live, data, next]
    hd,      \* the client's list variables: handle -> pointer to the first node
    last,    \* the call just made: arguments, heap before it, results, mallocs, frees
    misuse   \* some ll_remove was told to release a node a live node points to

vars == <<mem, hd, last, misuse>>

\* A released cell.  Its contents are indeterminate in C; no operation below
\* reads a released cell (the callers' guards exclude it).
Released == [live |-> FALSE, data |-> NULL, next |-> NULL]

NullArr == [null |-> TRUE, elems |-> <<>>]
Arr(s) == [null |-> FALSE, elems |-> s]

Live(m) == {a \in Addr : m[a].live}

\* malloc: NULL, or any cell that is not live.
MallocOutcomes(m) == {NULL} \cup (Addr \ Live(m))

\* free(a)
Free(m, a) == [m EXCEPT ![a] = Released]

----------------------------------------------------------------------------
\* Read-only functions of list.c

RECURSIVE tail_loop(_, _)
tail_loop(m, cur) ==
    IF m[cur].next # NULL THEN tail_loop(m, m[cur].next) ELSE cur

ll_tail(m, head) ==
    IF head = NULL THEN NULL ELSE tail_loop(m, head)

RECURSIVE size_loop(_, _, _)
size_loop(m, cur, count) ==
    IF cur # NULL THEN size_loop(m, m[cur].next, count + 1) ELSE count

\* ll_size whose count starts at 1.
ll_size_offbyone(m, head) == size_loop(m, head, 1)

ll_size(m, head) == size_loop(m, head, 0)

RECURSIVE find_loop(_, _, _)
find_loop(m, cur, value) ==
    IF cur # NULL
    THEN IF m[cur].data = value THEN cur ELSE find_loop(m, m[cur].next, value)
    ELSE NULL

\* ll_find whose loop tests cur->next, so that the last node is never
\* compared.
RECURSIVE find_loop_early(_, _, _)
find_loop_early(m, cur, value) ==
    IF cur # NULL /\ m[cur].next # NULL
    THEN IF m[cur].data = value THEN cur ELSE find_loop_early(m, m[cur].next, value)
    ELSE NULL

ll_find_early(m, head, value) == find_loop_early(m, head, value)

ll_find(m, head, value) == find_loop(m, head, value)

\* arr[i++] = cur->data; slot i of the C array is arr[i + 1].
RECURSIVE toarray_loop(_, _, _, _, _)
toarray_loop(m, cur, i, n, arr) ==
    IF cur # NULL /\ i < n
    THEN toarray_loop(m, m[cur].next, i + 1, n, [arr EXCEPT ![i + 1] = m[cur].data])
    ELSE arr

\* ll_toarray whose loop does not advance cur: every slot gets the value of
\* the head.
ll_toarray_stuck(m, head, ok) ==
    IF head = NULL THEN NullArr
    ELSE LET n == ll_size(m, head) IN
         IF n = 0 THEN NullArr
         ELSE IF ~ok THEN NullArr
         ELSE Arr([i \in 1..n |-> m[head].data])

\* ok: whether malloc of the array succeeds.  The array has n slots, whose
\* contents are indeterminate until written (0 here).
ll_toarray(m, head, ok) ==
    IF head = NULL THEN NullArr
    ELSE LET n == ll_size(m, head) IN
         IF n = 0 THEN NullArr
         ELSE IF ~ok THEN NullArr
         ELSE Arr(toarray_loop(m, head, 0, n, [i \in 1..n |-> 0]))

----------------------------------------------------------------------------
\* Functions of list.c that allocate or release.  Each returns the new heap,
\* its return value, and the cells it got from malloc / passed to free, in
\* call order.

\* node: the outcome of malloc.
ll_create(m, data, node) ==
    IF node = NULL
    THEN [mem |-> m, ret |-> NULL, allocd |-> <<>>]
    ELSE [mem |-> [m EXCEPT ![node] = [live |-> TRUE, data |-> data, next |-> NULL]],
          ret |-> node, allocd |-> <<node>>]

RECURSIVE destroy_loop(_, _, _)
destroy_loop(m, cur, freed) ==
    IF cur # NULL
    THEN LET next == m[cur].next IN
         destroy_loop(Free(m, cur), next, Append(freed, cur))
    ELSE [mem |-> m, freed |-> freed]

\* ll_destroy without its loop: only the head is released.
ll_destroy_headonly(m, head) ==
    IF head # NULL THEN [mem |-> Free(m, head), freed |-> <<head>>]
    ELSE [mem |-> m, freed |-> <<>>]

ll_destroy(m, head) == destroy_loop(m, head, <<>>)

\* ll_append without the test of head at its top: a node is created for an
\* empty list too.
ll_append_nocheck(m, head, data, node) ==
    LET c == ll_create(m, data, node) IN
    IF head = NULL THEN [mem |-> c.mem, allocd |-> c.allocd]
    ELSE IF c.ret = NULL THEN [mem |-> m, allocd |-> <<>>]
         ELSE [mem |-> [c.mem EXCEPT ![ll_tail(m, head)].next = c.ret],
               allocd |-> c.allocd]

\* ll_append that links the new node after head rather than after the tail.
ll_append_athead(m, head, data, node) ==
    IF head = NULL THEN [mem |-> m, allocd |-> <<>>]
    ELSE LET c == ll_create(m, data, node) IN
         IF c.ret = NULL THEN [mem |-> m, allocd |-> <<>>]
         ELSE [mem |-> [c.mem EXCEPT ![head].next = c.ret],
               allocd |-> c.allocd]

\* node: the outcome of malloc, if ll_create is reached.
ll_append(m, head, data, node) ==
    IF head = NULL THEN [mem |-> m, allocd |-> <<>>]
    ELSE LET tail == ll_tail(m, head) IN
         IF tail = NULL THEN [mem |-> m, allocd |-> <<>>]
         ELSE LET c == ll_create(m, data, node) IN
              IF c.ret = NULL THEN [mem |-> m, allocd |-> <<>>]
              ELSE [mem |-> [c.mem EXCEPT ![tail].next = c.ret],
                    allocd |-> c.allocd]

\* data[i] of the C code is data.elems[i + 1]; allocs[i + 1] is the outcome of
\* the malloc that creates the node of data[i].
RECURSIVE fromarray_loop(_, _, _, _, _, _, _, _)
fromarray_loop(m, data, len, allocs, head, tail, i, allocd) ==
    IF i < len
    THEN LET c == ll_create(m, data.elems[i + 1], allocs[i + 1]) IN
         IF c.ret = NULL
         THEN LET d == ll_destroy(m, head) IN
              [mem |-> d.mem, ret |-> NULL, allocd |-> allocd, freed |-> d.freed]
         ELSE fromarray_loop([c.mem EXCEPT ![tail].next = c.ret], data, len,
                             allocs, head, c.ret, i + 1, allocd \o c.allocd)
    ELSE [mem |-> m, ret |-> head, allocd |-> allocd, freed |-> <<>>]

\* ll_fromarray that returns NULL on a failed allocation without releasing
\* the nodes it has built.
RECURSIVE fromarray_loop_leak(_, _, _, _, _, _, _, _)
fromarray_loop_leak(m, data, len, allocs, head, tail, i, allocd) ==
    IF i < len
    THEN LET c == ll_create(m, data.elems[i + 1], allocs[i + 1]) IN
         IF c.ret = NULL
         THEN [mem |-> m, ret |-> NULL, allocd |-> allocd, freed |-> <<>>]
         ELSE fromarray_loop_leak([c.mem EXCEPT ![tail].next = c.ret], data, len,
                                  allocs, head, c.ret, i + 1, allocd \o c.allocd)
    ELSE [mem |-> m, ret |-> head, allocd |-> allocd, freed |-> <<>>]

ll_fromarray_leak(m, data, len, allocs) ==
    IF data.null \/ len <= 0
    THEN [mem |-> m, ret |-> NULL, allocd |-> <<>>, freed |-> <<>>]
    ELSE LET h == ll_create(m, data.elems[1], allocs[1]) IN
         IF h.ret = NULL
         THEN [mem |-> m, ret |-> NULL, allocd |-> <<>>, freed |-> <<>>]
         ELSE fromarray_loop_leak(h.mem, data, len, allocs, h.ret, h.ret, 1, h.allocd)

ll_fromarray(m, data, len, allocs) ==
    IF data.null \/ len <= 0
    THEN [mem |-> m, ret |-> NULL, allocd |-> <<>>, freed |-> <<>>]
    ELSE LET h == ll_create(m, data.elems[1], allocs[1]) IN
         IF h.ret = NULL
         THEN [mem |-> m, ret |-> NULL, allocd |-> <<>>, freed |-> <<>>]
         ELSE fromarray_loop(h.mem, data, len, allocs, h.ret, h.ret, 1, h.allocd)

RECURSIVE remove_loop(_, _, _, _, _)
remove_loop(m, head, prev, cur, value) ==
    IF cur # NULL
    THEN IF m[cur].data = value
         THEN [mem |-> Free([m EXCEPT ![prev].next = m[cur].next], cur),
               ret |-> head, freed |-> <<cur>>]
         ELSE remove_loop(m, head, cur, m[cur].next, value)
    ELSE [mem |-> m, ret |-> head, freed |-> <<>>]

\* ll_remove that releases the matching node without prev->next = cur->next.
RECURSIVE remove_loop_nounlink(_, _, _, _, _)
remove_loop_nounlink(m, head, prev, cur, value) ==
    IF cur # NULL
    THEN IF m[cur].data = value
         THEN [mem |-> Free(m, cur), ret |-> head, freed |-> <<cur>>]
         ELSE remove_loop_nounlink(m, head, cur, m[cur].next, value)
    ELSE [mem |-> m, ret |-> head, freed |-> <<>>]

ll_remove_nounlink(m, head, value) ==
    IF head = NULL THEN [mem |-> m, ret |-> NULL, freed |-> <<>>]
    ELSE IF m[head].data = value
         THEN [mem |-> Free(m, head), ret |-> m[head].next, freed |-> <<head>>]
         ELSE remove_loop_nounlink(m, head, head, m[head].next, value)

\* ll_remove without the test of head->data: the search starts at the
\* second node.
ll_remove_skiphead(m, head, value) ==
    IF head = NULL THEN [mem |-> m, ret |-> NULL, freed |-> <<>>]
    ELSE remove_loop(m, head, head, m[head].next, value)

\* ll_remove that returns NULL, not head, when no node matches.
ll_remove_notfound(m, head, value) ==
    IF head = NULL THEN [mem |-> m, ret |-> NULL, freed |-> <<>>]
    ELSE IF m[head].data = value
         THEN [mem |-> Free(m, head), ret |-> m[head].next, freed |-> <<head>>]
         ELSE LET r == remove_loop(m, head, head, m[head].next, value) IN
              IF r.freed = <<>> THEN [r EXCEPT !.ret = NULL] ELSE r

ll_remove(m, head, value) ==
    IF head = NULL THEN [mem |-> m, ret |-> NULL, freed |-> <<>>]
    ELSE IF m[head].data = value
         THEN [mem |-> Free(m, head), ret |-> m[head].next, freed |-> <<head>>]
         ELSE remove_loop(m, head, head, m[head].next, value)

----------------------------------------------------------------------------
\* The client: which calls it makes, and what it records.

Range(s) == {s[i] : i \in 1..Len(s)}

SeqsUpTo(n) == UNION {[1..i -> Values] : i \in 0..n}

\* The arrays a caller may pass to ll_fromarray: NULL, or an array of up to
\* MaxLen integers.
Arrays == {NullArr} \cup {Arr(s) : s \in SeqsUpTo(MaxLen)}

\* The lengths a caller may pass with an array: any int for NULL, and no more
\* than the array holds otherwise (data[i] beyond it is not defined).
Lens(data) == IF data.null THEN (0 - 1)..MaxLen ELSE (0 - 1)..Len(data.elems)

\* The outcomes of n successive mallocs with no free in between: distinct
\* cells that are not live, until one fails (outcomes after it are not used).
RECURSIVE AllocSeqsFrom(_, _)
AllocSeqsFrom(free, n) ==
    IF n = 0 THEN {<<>>}
    ELSE {[i \in 1..n |-> NULL]}
         \cup UNION {{<<a>> \o s : s \in AllocSeqsFrom(free \ {a}, n - 1)} : a \in free}

AllocSeqs(m, n) == AllocSeqsFrom(Addr \ Live(m), n)

\* The cells a traversal from cur visits, in order, stopping at NULL, at a
\* released cell (after listing it) or after fuel cells.
RECURSIVE Chain(_, _, _)
Chain(m, cur, fuel) ==
    IF cur = NULL \/ fuel = 0 THEN <<>>
    ELSE IF ~m[cur].live THEN <<cur>>
    ELSE <<cur>> \o Chain(m, m[cur].next, fuel - 1)

Nodes(m, h) == Range(Chain(m, h, MaxNodes))

\* Whether a traversal from h reads only live nodes and ends at NULL.  The
\* client makes a call only on such a list: reading a released node is not
\* defined.
RECURSIVE Walk(_, _, _)
Walk(m, cur, fuel) ==
    IF cur = NULL THEN TRUE
    ELSE IF fuel = 0 \/ ~m[cur].live THEN FALSE
    ELSE Walk(m, m[cur].next, fuel - 1)

Traversable(m, h) == Walk(m, h, MaxNodes)

\* The values of the list headed by h, in traversal order.
Vals(m, h) == LET c == Chain(m, h, MaxNodes) IN [i \in 1..Len(c) |-> m[c[i]].data]

NoCall ==
    [op |-> "none", who |-> "none", h |-> NULL, v |-> 0,
     pre |-> [a \in Addr |-> Released],
     retp |-> NULL, reti |-> 0, arr |-> NullArr,
     data |-> NullArr, len |-> 0, ok |-> TRUE,
     allocd |-> <<>>, freed |-> <<>>]

Call(op, who, h, v) ==
    [NoCall EXCEPT !.op = op, !.who = who, !.h = h, !.v = v, !.pre = mem]

\* The client is between two calls.
Idle == last.op = "none"

\* ll_remove(h, v) is told to release node h while a live node points to it.
Misused(m, h, v) ==
    /\ h # NULL
    /\ m[h].data = v
    /\ \E p \in Live(m) : m[p].next = h

Init ==
    /\ mem = [a \in Addr |-> Released]
    /\ hd = [k \in Handles |-> NULL]
    /\ last = NoCall
    /\ misuse = FALSE

\* lst = ll_create(v), for a list variable that holds no list
Create(k) ==
    /\ Idle
    /\ hd[k] = NULL
    /\ \E v \in Values, node \in MallocOutcomes(mem) :
           LET c == ll_create(mem, v, node) IN
           /\ mem' = c.mem
           /\ hd' = [hd EXCEPT ![k] = c.ret]
           /\ last' = [Call("create", k, NULL, v) EXCEPT
                           !.retp = c.ret, !.allocd = c.allocd, !.ok = (node # NULL)]
           /\ UNCHANGED misuse

\* lst = ll_fromarray(data, len), for a list variable that holds no list
FromArray(k) ==
    /\ Idle
    /\ hd[k] = NULL
    /\ \E data \in Arrays :
       \E len \in Lens(data) :
       \E allocs \in AllocSeqs(mem, IF len > 0 THEN len ELSE 0) :
           LET r == ll_fromarray(mem, data, len, allocs) IN
           /\ mem' = r.mem
           /\ hd' = [hd EXCEPT ![k] = r.ret]
           /\ last' = [Call("fromarray", k, NULL, 0) EXCEPT
                           !.data = data, !.len = len, !.retp = r.ret,
                           !.allocd = r.allocd, !.freed = r.freed,
                           !.ok = (NULL \notin Range(allocs))]
           /\ UNCHANGED misuse

\* ll_append(lst, v)
Append_(k) ==
    /\ Idle
    /\ Traversable(mem, hd[k])
    /\ \E v \in Values, node \in MallocOutcomes(mem) :
           LET r == ll_append(mem, hd[k], v, node) IN
           /\ mem' = r.mem
           /\ last' = [Call("append", k, hd[k], v) EXCEPT
                           !.allocd = r.allocd, !.ok = (node # NULL)]
           /\ UNCHANGED <<hd, misuse>>

\* lst = ll_remove(lst, v)
Remove(k) ==
    /\ Idle
    /\ Traversable(mem, hd[k])
    /\ \E v \in Values :
           LET r == ll_remove(mem, hd[k], v) IN
           /\ mem' = r.mem
           /\ hd' = [hd EXCEPT ![k] = r.ret]
           /\ last' = [Call("remove", k, hd[k], v) EXCEPT !.retp = r.ret, !.freed = r.freed]
           /\ misuse' = (misuse \/ Misused(mem, hd[k], v))

\* ll_destroy(lst); the variable is not used again.
Destroy(k) ==
    LET d == ll_destroy(mem, hd[k]) IN
    /\ Idle
    /\ Traversable(mem, hd[k])
    /\ mem' = d.mem
    /\ hd' = [hd EXCEPT ![k] = NULL]
    /\ last' = [Call("destroy", k, hd[k], 0) EXCEPT !.freed = d.freed]
    /\ UNCHANGED misuse

\* ll_size(lst)
Size(k) ==
    /\ Idle
    /\ Traversable(mem, hd[k])
    /\ last' = [Call("size", k, hd[k], 0) EXCEPT !.reti = ll_size(mem, hd[k])]
    /\ UNCHANGED <<mem, hd, misuse>>

\* f = ll_find(lst, v)
Find(k) ==
    /\ Idle
    /\ Traversable(mem, hd[k])
    /\ \E v \in Values :
           /\ last' = [Call("find", k, hd[k], v) EXCEPT !.retp = ll_find(mem, hd[k], v)]
           /\ UNCHANGED <<mem, hd, misuse>>

\* ll_tail(lst)
Tail_(k) ==
    /\ Idle
    /\ Traversable(mem, hd[k])
    /\ last' = [Call("tail", k, hd[k], 0) EXCEPT !.retp = ll_tail(mem, hd[k])]
    /\ UNCHANGED <<mem, hd, misuse>>

\* arr = ll_toarray(lst); free(arr)
ToArray(k) ==
    /\ Idle
    /\ Traversable(mem, hd[k])
    /\ \E ok \in BOOLEAN :
           /\ last' = [Call("toarray", k, hd[k], 0) EXCEPT
                           !.arr = ll_toarray(mem, hd[k], ok), !.ok = ok]
           /\ UNCHANGED <<mem, hd, misuse>>

\* The client goes on to its next statement.
Return ==
    /\ ~Idle
    /\ last' = NoCall
    /\ UNCHANGED <<mem, hd, misuse>>

\* The calls of the client of main, on its one list variable.
Calls ==
    \/ Create("lst")
    \/ FromArray("lst")
    \/ Append_("lst")
    \/ Remove("lst")
    \/ Destroy("lst")
    \/ Size("lst")
    \/ Find("lst")
    \/ Tail_("lst")
    \/ ToArray("lst")

Next == Calls \/ Return

Spec == Init /\ [][Next]_vars

\* copy = ll_fromarray(ll_toarray(lst), ll_size(lst)); free(arr)
Copy ==
    /\ Idle
    /\ hd["copy"] = NULL
    /\ Traversable(mem, hd["lst"])
    /\ \E ok \in BOOLEAN :
       \E allocs \in AllocSeqs(mem, ll_size(mem, hd["lst"])) :
           LET arr == ll_toarray(mem, hd["lst"], ok)
               n == ll_size(mem, hd["lst"])
               r == ll_fromarray(mem, arr, n, allocs)
           IN
           /\ mem' = r.mem
           /\ hd' = [hd EXCEPT !["copy"] = r.ret]
           /\ last' = [Call("copy", "copy", hd["lst"], 0) EXCEPT
                           !.arr = arr, !.data = arr, !.len = n, !.retp = r.ret,
                           !.allocd = r.allocd, !.freed = r.freed,
                           !.ok = (ok /\ NULL \notin Range(allocs))]
           /\ UNCHANGED misuse

NoCopy == hd["copy"] = NULL

\* A client that also copies its list through an array, and releases the
\* copy before it goes on with the list.
NextCopy ==
    \/ NoCopy /\ Create("lst")
    \/ NoCopy /\ FromArray("lst")
    \/ NoCopy /\ Append_("lst")
    \/ NoCopy /\ Remove("lst")
    \/ NoCopy /\ Destroy("lst")
    \/ NoCopy /\ Size("lst")
    \/ NoCopy /\ Find("lst")
    \/ NoCopy /\ Tail_("lst")
    \/ NoCopy /\ ToArray("lst")
    \/ Copy
    \/ Destroy("copy")
    \/ Return

SpecCopy == Init /\ [][NextCopy]_vars

----------------------------------------------------------------------------
\* A client that also passes the node it just got from ll_find or ll_tail
\* to ll_append and ll_remove, as the head of the sublist it starts.

GotNode ==
    /\ last.op \in {"find", "tail"}
    /\ last.retp # NULL
    /\ Traversable(mem, last.retp)

\* ll_append(f, v)
AppendAt ==
    /\ GotNode
    /\ \E v \in Values, node \in MallocOutcomes(mem) :
           LET r == ll_append(mem, last.retp, v, node) IN
           /\ mem' = r.mem
           /\ last' = [Call("append", "f", last.retp, v) EXCEPT
                           !.allocd = r.allocd, !.ok = (node # NULL)]
           /\ UNCHANGED <<hd, misuse>>

\* f = ll_remove(f, v); a list variable that pointed at f follows f.
RemoveAt ==
    /\ GotNode
    /\ \E v \in Values :
           LET r == ll_remove(mem, last.retp, v) IN
           /\ mem' = r.mem
           /\ hd' = [k \in Handles |-> IF hd[k] = last.retp THEN r.ret ELSE hd[k]]
           /\ last' = [Call("remove", "f", last.retp, v) EXCEPT
                           !.retp = r.ret, !.freed = r.freed]
           /\ misuse' = (misuse \/ Misused(mem, last.retp, v))

\* The client is followed up to its first misuse.  Every state without a
\* misuse is reached that way, since misuse is never reset.  What a later
\* call does with the released node is not defined, and is not modelled.
NextAny ==
    \/ ~misuse /\ Create("lst")
    \/ ~misuse /\ FromArray("lst")
    \/ ~misuse /\ Append_("lst")
    \/ ~misuse /\ Remove("lst")
    \/ ~misuse /\ Destroy("lst")
    \/ ~misuse /\ Size("lst")
    \/ ~misuse /\ Find("lst")
    \/ ~misuse /\ Tail_("lst")
    \/ ~misuse /\ ToArray("lst")
    \/ ~misuse /\ AppendAt
    \/ ~misuse /\ RemoveAt
    \/ ~misuse /\ Return

SpecAny == Init /\ [][NextAny]_vars

TypeOK ==
    /\ \A k \in Handles : hd[k] \in Ptr
    /\ \A a \in Addr : mem[a].next \in Ptr
    /\ misuse \in BOOLEAN

----------------------------------------------------------------------------
\* What the properties below read off a state.

Pre == last.pre

\* The index of the first occurrence of v in S.
FirstIdx(S, v) == CHOOSE i \in 1..Len(S) : S[i] = v /\ \A j \in 1..(i - 1) : S[j] # v

\* S without its i-th element.
SeqDel(S, i) == [j \in 1..(Len(S) - 1) |-> IF j < i THEN S[j] ELSE S[j + 1]]

NoRepeat(S) == \A i, j \in 1..Len(S) : i # j => S[i] # S[j]

AllocCount(m) == Cardinality(Live(m))

----------------------------------------------------------------------------
\* C1: ll_append on an empty list (head NULL) does nothing: no cell is got
\* from malloc, the number of live nodes and the heap are as before the call,
\* the list variable is still NULL, and ll_size is 0 before and after.
C1_AppendEmptyNoop ==
    (last.op = "append" /\ last.h = NULL) =>
        /\ last.allocd = <<>>
        /\ AllocCount(mem) = AllocCount(Pre)
        /\ mem = Pre
        /\ hd[last.who] = NULL
        /\ ll_size(Pre, last.h) = 0
        /\ ll_size(mem, hd[last.who]) = 0

\* An append on the empty list, in a heap where malloc had a cell to give.
C1_Witness ==
    /\ last.op = "append"
    /\ last.h = NULL
    /\ last.ok
    /\ Live(mem) = {}

\* C2: ll_append on a non-empty list, when malloc succeeds: the list is still
\* headed by the same node and its values are the former values followed by
\* v; exactly one cell is allocated, it holds v and has no successor, and it
\* is linked after the former tail; no other field of any cell changes.
C2_AppendLinksAtTail ==
    (last.op = "append" /\ last.h # NULL /\ last.ok) =>
        LET c == Chain(Pre, last.h, MaxNodes)
            tail == c[Len(c)]
        IN
        /\ Len(last.allocd) = 1
        /\ last.allocd[1] \notin Live(Pre)
        /\ hd[last.who] = last.h
        /\ Vals(mem, last.h) = Append(Vals(Pre, last.h), last.v)
        /\ Chain(mem, last.h, MaxNodes) = Append(c, last.allocd[1])
        /\ mem[last.allocd[1]] = [live |-> TRUE, data |-> last.v, next |-> NULL]
        /\ mem[tail] = [Pre[tail] EXCEPT !.next = last.allocd[1]]
        /\ \A a \in Addr \ {tail, last.allocd[1]} : mem[a] = Pre[a]

\* A successful append on a list of at least two nodes.
C2_Witness ==
    /\ last.op = "append"
    /\ last.h # NULL
    /\ last.ok
    /\ Len(Chain(Pre, last.h, MaxNodes)) >= 2
    /\ Len(Chain(mem, last.h, MaxNodes)) >= 3

\* C3: ll_remove of a value v that occurs in the list releases exactly one
\* node, the first in traversal order that holds v, and returns the head of
\* the list of the other nodes, in their former order (later nodes holding v
\* stay).  The head returned differs from h only if h was the node released,
\* and is NULL if that node was the only one.  If v occurred once, the result
\* has one node less and ll_find of v in it is NULL.
C3_RemoveFirstMatch ==
    (last.op = "remove" /\ last.v \in Range(Vals(Pre, last.h))) =>
        LET c == Chain(Pre, last.h, MaxNodes)
            S == Vals(Pre, last.h)
            i == FirstIdx(S, last.v)
        IN
        /\ last.freed = <<c[i]>>
        /\ Live(mem) = Live(Pre) \ {c[i]}
        /\ Traversable(mem, last.retp)
        /\ Chain(mem, last.retp, MaxNodes) = SeqDel(c, i)
        /\ Vals(mem, last.retp) = SeqDel(S, i)
        /\ last.retp # last.h => c[i] = last.h
        /\ Len(c) = 1 => last.retp = NULL
        /\ hd[last.who] = last.retp
        /\ Cardinality({j \in 1..Len(S) : S[j] = last.v}) = 1 =>
              /\ ll_size(mem, last.retp) = ll_size(Pre, last.h) - 1
              /\ ll_find(mem, last.retp, last.v) = NULL

\* A removal of a value that occurs twice, the first time after the head: a
\* node other than the head is released and the value still occurs.
C3_Witness ==
    /\ last.op = "remove"
    /\ Len(last.freed) = 1
    /\ last.freed[1] # last.h
    /\ last.retp = last.h
    /\ last.v \in Range(Vals(mem, last.retp))

\* C4: ll_remove of a value that does not occur in the list (the empty list
\* included) returns the head it was given, releases nothing and changes
\* nothing: ll_toarray gives the same array as before.
C4_RemoveAbsentUnchanged ==
    (last.op = "remove" /\ last.v \notin Range(Vals(Pre, last.h))) =>
        /\ last.retp = last.h
        /\ hd[last.who] = last.h
        /\ last.freed = <<>>
        /\ mem = Pre
        /\ ll_toarray(mem, last.retp, TRUE) = ll_toarray(Pre, last.h, TRUE)

\* A removal of an absent value from a list of at least two nodes.
C4_Witness ==
    /\ last.op = "remove"
    /\ last.v \notin Range(Vals(Pre, last.h))
    /\ Len(Vals(Pre, last.h)) >= 2

\* C7: ll_find returns NULL exactly when v does not occur among the values
\* of the list (the empty list included); otherwise it returns the first
\* node in traversal order that holds v; it changes nothing.
C7_FindFirstMatch ==
    (last.op = "find") =>
        LET c == Chain(Pre, last.h, MaxNodes)
            S == Vals(Pre, last.h)
        IN
        /\ last.retp = NULL <=> last.v \notin Range(S)
        /\ last.v \in Range(S) => last.retp = c[FirstIdx(S, last.v)]
        /\ mem = Pre
        /\ hd[last.who] = last.h

\* A find that returns a node other than the head, while a later node holds
\* the value too.
C7_Witness ==
    /\ last.op = "find"
    /\ last.retp # NULL
    /\ last.retp # last.h
    /\ last.v \in Range(Vals(mem, mem[last.retp].next))

\* The part of C5 that holds for every input: if an allocation fails,
\* ll_fromarray returns NULL, has released every node it built, in order, and
\* leaves the heap as it was; in no case does it return a partial list.
FromArrayAllOrNothing ==
    /\ ~last.ok =>
          /\ last.retp = NULL
          /\ last.freed = last.allocd
          /\ AllocCount(mem) = AllocCount(Pre)
          /\ mem = Pre
    /\ last.retp # NULL => Len(Chain(mem, last.retp, MaxNodes)) = last.len

\* A chain of exactly len nodes is returned: new nodes, holding data[0] to
\* data[len - 1] in order.
FromArrayBuilt ==
    /\ last.retp # NULL
    /\ Traversable(mem, last.retp)
    /\ Len(Chain(mem, last.retp, MaxNodes)) = last.len
    /\ Chain(mem, last.retp, MaxNodes) = last.allocd
    /\ Range(last.allocd) \cap Live(Pre) = {}
    /\ AllocCount(mem) = AllocCount(Pre) + last.len
    /\ Vals(mem, last.retp) = SubSeq(last.data.elems, 1, last.len)
    /\ last.freed = <<>>

\* C5 as stated: ll_fromarray is all-or-nothing, and if no allocation fails
\* and len > 0 it returns a chain of exactly len nodes.
C5_Original ==
    (last.op = "fromarray") =>
        /\ FromArrayAllOrNothing
        /\ (last.ok /\ last.len > 0) => FromArrayBuilt

\* C5 amended: ll_fromarray is all-or-nothing, and if no allocation fails,
\* data is not NULL and len > 0 it returns a chain of exactly len nodes.
C5_FromArrayAllOrNothing ==
    (last.op = "fromarray") =>
        /\ FromArrayAllOrNothing
        /\ (last.ok /\ ~last.data.null /\ last.len > 0) => FromArrayBuilt

\* A call in which two nodes were built before the third allocation failed.
C5_Witness ==
    /\ last.op = "fromarray"
    /\ ~last.ok
    /\ Len(last.allocd) = 2
    /\ last.len = 3
    /\ last.retp = NULL

\* The part of C8 that holds whether or not the array can be allocated:
\* ll_size is the number of nodes reached from the head, 0 for NULL, and an
\* array, when one is returned, holds exactly ll_size integers, the values of
\* the nodes in traversal order.
ToArrayOfSize ==
    /\ ll_size(Pre, last.h) = Len(Chain(Pre, last.h, MaxNodes))
    /\ last.h = NULL => ll_size(Pre, last.h) = 0
    /\ ~last.arr.null =>
          /\ Len(last.arr.elems) = ll_size(Pre, last.h)
          /\ last.arr.elems = Vals(Pre, last.h)
    /\ mem = Pre

\* C8 as stated: for every non-empty list, ll_toarray returns an array of
\* exactly ll_size integers.
C8_Original ==
    (last.op = "toarray") =>
        /\ ToArrayOfSize
        /\ last.h # NULL => ~last.arr.null

\* C8 amended: for every non-empty list, when the allocation of the array
\* succeeds, ll_toarray returns an array of exactly ll_size integers, the
\* values of the nodes in traversal order.
C8_ToArrayOfSize ==
    (last.op = "toarray") =>
        /\ ToArrayOfSize
        /\ (last.h # NULL /\ last.ok) => ~last.arr.null

\* An array of three integers, not all equal, was returned.
C8_Witness ==
    /\ last.op = "toarray"
    /\ last.ok
    /\ ~last.arr.null
    /\ Len(last.arr.elems) = 3
    /\ last.arr.elems[1] # last.arr.elems[3]

\* C9: ll_destroy releases every node reached from the head, each once, from
\* head to tail, and does nothing for NULL.  No call ever releases a cell
\* that is not live or releases a cell twice, and after ll_destroy of the
\* client's list no node remains allocated.
C9_DestroyReleasesAll ==
    /\ ~Idle =>
          /\ NoRepeat(last.freed)
          /\ Range(last.freed) \subseteq Live(Pre) \cup Range(last.allocd)
          /\ Live(mem) = (Live(Pre) \cup Range(last.allocd)) \ Range(last.freed)
    /\ (last.op = "destroy") =>
          /\ last.freed = Chain(Pre, last.h, MaxNodes)
          /\ last.h = NULL => (last.freed = <<>> /\ mem = Pre)
          /\ hd[last.who] = NULL
          /\ Live(mem) = {}

\* A destroy of a list of three nodes.
C9_Witness ==
    /\ last.op = "destroy"
    /\ Len(last.freed) = 3
    /\ Live(mem) = {}

\* The list L of the round trip is as before it.
RoundTripLeavesList ==
    /\ hd["lst"] = last.h
    /\ Chain(mem, last.h, MaxNodes) = Chain(Pre, last.h, MaxNodes)
    /\ \A a \in Live(Pre) : mem[a] = Pre[a]

\* The round trip gave a list of new nodes, none of them a node of L, that
\* holds the values of L in the same order.
RoundTripCopies ==
    /\ last.retp # NULL
    /\ hd["copy"] = last.retp
    /\ Traversable(mem, last.retp)
    /\ Vals(mem, last.retp) = Vals(Pre, last.h)
    /\ Nodes(mem, last.retp) \cap Nodes(mem, last.h) = {}
    /\ Nodes(mem, last.retp) \cap Live(Pre) = {}

\* C6 as stated: for every non-empty list L,
\* ll_fromarray(ll_toarray(L), ll_size(L)) is a new list with the values of L,
\* and L is unchanged.
C6_Original ==
    (last.op = "copy" /\ last.h # NULL) =>
        /\ RoundTripLeavesList
        /\ RoundTripCopies

\* C6 amended: for every non-empty list L, when no allocation fails,
\* ll_fromarray(ll_toarray(L), ll_size(L)) is a new list, sharing no node with
\* L, with the values of L in the same order; L is unchanged in every case.
C6_RoundTrip ==
    (last.op = "copy" /\ last.h # NULL) =>
        /\ RoundTripLeavesList
        /\ last.ok => RoundTripCopies

\* A round trip of a list of two different values, with no allocation failing.
C6_Witness ==
    /\ last.op = "copy"
    /\ last.ok
    /\ last.retp # NULL
    /\ Len(Vals(mem, last.retp)) = 2
    /\ Vals(mem, last.retp)[1] # Vals(mem, last.retp)[2]

\* From every live node, the traversal reads only live nodes and ends, within
\* as many steps as there are cells, at a node whose next is NULL.
ChainsWellFormed == \A a \in Live(mem) : Traversable(mem, a)

\* C10 as stated: whatever live node ll_append and ll_remove are given, the
\* chain from every live node is acyclic, ends at NULL and passes through no
\* released node.
C10_Original == ChainsWellFormed

\* C10 amended: the same, as long as ll_remove is given either a node that no
\* live node points to (the head of a list) or a node that does not itself
\* hold the value to remove; ll_append may be given any live node.
C10_ChainsWellFormed == ~misuse => ChainsWellFormed

\* ll_remove was given a node inside a list, found the value in a later node
\* of it and released that node.
C10_Witness ==
    /\ ~misuse
    /\ last.op = "remove"
    /\ last.who = "f"
    /\ \E p \in Live(Pre) : Pre[p].next = last.h
    /\ Len(last.freed) = 1
====
